---- MODULE Spec2Model ----
(***************************************************************************)
(* Model of the go-api repository: the generic in-memory MemoryStore[T]    *)
(* (storage/store.go), the HTTP handlers that call it (handlers/*.go) and  *)
(* the bootstrap that builds one store per resource (main.go).             *)
(*                                                                         *)
(* Each request is served by its own goroutine p.  A request walks through *)
(*   idle -> decode -> call -> (lockwait) -> cs -> respond -> idle         *)
(* (a body that does not decode goes from decode straight to respond),     *)
(* where "cs" is the critical section of the store method: the method body *)
(* and its deferred Unlock/RUnlock run as one step, which is sound because *)
(* nothing can observe the map between the body and the deferred release.  *)
(***************************************************************************)
EXTENDS Integers, FiniteSets, Sequences, Bags, TLC

\* ---------------------------------------------------------------- bounds
NumProcs == 2
MaxRequests == 3
MaxClock == 2

Procs == 1..NumProcs

\* ------------------------------------------------------------- data model
\* The canonical strings uuid.New().String() can produce.  The real space
\* has 2^122 members; the generator is modelled as never repeating a value.
UUIDs == {"u1", "u2", "u3", "u4"}

\* Identifiers a client may put in the request path.  Which uuid the
\* generator hands out is its own choice, so "u1" stands for an identifier
\* that was never assigned, is stored now, or was stored and deleted.
PathIDs == {"u1"}

\* A JSON key that is absent from the payload (or null).
Null == "null"
\* A timestamp key that is absent from the payload.
NullTime == -1
\* A request body that json.Decoder cannot decode.
Malformed == [malformed |-> TRUE]

\* time.Time{} : the zero time of a struct field that was never set.
ZeroTime == 0

\* Values a client may send for the identity fields.
RawIDs == {"u1"}
RawTimes == {2}

\* The record shape each store is instantiated with.
ShapeOf(s) ==
  CASE s = "items" -> "Item"
    [] s = "clients" -> "Client"
    [] OTHER -> "Order"

\* The JSON objects a client may send for a record of the given shape.  A
\* client sends the identity keys (id, created_at, updated_at) all or none.
AllPayloads(shape) ==
  CASE shape = "Item" ->
         [id: {Null} \cup RawIDs, name: {"a"}, description: {Null, "x"},
          created_at: {NullTime} \cup RawTimes, updated_at: {NullTime} \cup RawTimes]
    [] shape = "Client" ->
         [id: {Null} \cup RawIDs, name: {"a"}, email: {Null, "e"},
          phone: {Null}, created_at: {NullTime} \cup RawTimes,
          updated_at: {NullTime} \cup RawTimes]
    [] OTHER ->
         [id: {Null} \cup RawIDs, status: {Null, "s"},
          created_at: {NullTime} \cup RawTimes, updated_at: {NullTime} \cup RawTimes]

Payloads(shape) ==
  {pl \in AllPayloads(shape) :
     /\ (pl.id = Null) <=> (pl.created_at = NullTime)
     /\ (pl.id = Null) <=> (pl.updated_at = NullTime)}

StrField(v) == IF v = Null THEN "" ELSE v
TimeField(v) == IF v = NullTime THEN ZeroTime ELSE v

\* json.NewDecoder(r.Body).Decode(&item) on a zero-valued struct: a key that
\* is absent leaves the field at its zero value.
Decode(shape, payload) ==
  CASE shape = "Item" ->
         [ID |-> StrField(payload.id), Name |-> StrField(payload.name),
          Description |-> StrField(payload.description),
          CreatedAt |-> TimeField(payload.created_at),
          UpdatedAt |-> TimeField(payload.updated_at)]
    [] shape = "Client" ->
         [ID |-> StrField(payload.id), Name |-> StrField(payload.name),
          Email |-> StrField(payload.email), Phone |-> StrField(payload.phone),
          CreatedAt |-> TimeField(payload.created_at),
          UpdatedAt |-> TimeField(payload.updated_at)]
    [] OTHER ->
         [ID |-> StrField(payload.id), Status |-> StrField(payload.status),
          CreatedAt |-> TimeField(payload.created_at),
          UpdatedAt |-> TimeField(payload.updated_at)]

\* var zero T
ZeroRecord(shape) ==
  CASE shape = "Item" ->
         [ID |-> "", Name |-> "", Description |-> "",
          CreatedAt |-> ZeroTime, UpdatedAt |-> ZeroTime]
    [] shape = "Client" ->
         [ID |-> "", Name |-> "", Email |-> "", Phone |-> "",
          CreatedAt |-> ZeroTime, UpdatedAt |-> ZeroTime]
    [] OTHER ->
         [ID |-> "", Status |-> "", CreatedAt |-> ZeroTime, UpdatedAt |-> ZeroTime]

\* The domain (caller-owned) fields of a record: everything but the identity.
DomainFields(rec) == (DOMAIN rec) \ {"ID", "CreatedAt", "UpdatedAt"}

\* ------------------------------------------------------------- map helpers
EmptyMap == [k \in {} |-> 0]

\* Mutant: the existence check always succeeds.
ExistsAlways(m, k) == TRUE

\* _, exists := s.items[k]
Exists(m, k) == k \in DOMAIN m

\* s.items[k] read as a value: a missing key reads as the zero value.
MapGet(m, k, zero) == IF k \in DOMAIN m THEN m[k] ELSE zero

\* Mutant: the assignment replaces the whole map by the one entry.
MapPutAlone(m, k, v) == [x \in {k} |-> v]

\* Mutant: the write lands under every key of the map.
MapPutEverywhere(m, k, v) == [x \in (DOMAIN m) \cup {k} |-> v]

\* s.items[k] = v
MapPut(m, k, v) == [x \in (DOMAIN m) \cup {k} |-> IF x = k THEN v ELSE m[x]]

\* Mutant: the delete removes nothing.
MapDeleteNothing(m, k) == m

\* Mutant: delete empties the map.
MapDeleteAll(m, k) == EmptyMap

\* delete(s.items, k)
MapDelete(m, k) == [x \in (DOMAIN m) \ {k} |-> m[x]]

\* Mutant: the slice is made with length len(s.items) and then appended to,
\* so it starts with that many zero values.
MapValuesPadded(m) ==
  [r \in {m[k] : k \in DOMAIN m} |-> Cardinality({k \in DOMAIN m : m[k] = r})]
    (+) [z \in {x \in {[zero |-> TRUE]} : m # EmptyMap} |-> Cardinality(DOMAIN m)]

\* The slice GetAll builds by ranging over the map: one element per key, in
\* an unspecified order.  Modelled as the bag of its elements.
MapValues(m) ==
  [r \in {m[k] : k \in DOMAIN m} |-> Cardinality({k \in DOMAIN m : m[k] = r})]

\* ------------------------------------------------------------------ state
VARIABLES
  stores,      \* the store instances the bootstrap has constructed
  items,       \* items[s] : the map of store s (identifier -> record)
  mu,          \* mu[s] : the RWMutex of store s
  pc,          \* pc[p] : where goroutine p is in its request
  req,         \* req[p] : the request p is serving
  data,        \* data[p] : the decoded record p passes to the store
  ret,         \* ret[p] : what the store method returned to p
  status,      \* the status code of the last HTTP response written
  clock,       \* the last reading of time.Now()
  issued,      \* the uuids uuid.New() has produced so far
  nreq,        \* number of requests accepted so far
  createLog,   \* history: bag of the <<store, record>> the Creates returned
  updatedIDs,  \* history: updatedIDs[s] : ids on which Update succeeded
  deletedIDs   \* history: deletedIDs[s] : ids on which Delete returned true

vars == <<stores, items, mu, pc, req, data, ret, status, clock, issued, nreq,
          createLog, updatedIDs, deletedIDs>>

NoReq == [store |-> "", op |-> "", id |-> ""]
NoData == [nodata |-> TRUE]
NoStatus == 0
NoRet == [op |-> "", rec |-> NoData, ok |-> FALSE, list |-> EmptyBag]
\* The decode error of a handler that never reached its store call.
BadRequest == [op |-> "BadRequest", rec |-> NoData, ok |-> FALSE, list |-> EmptyBag]

ReadOps == {"GetAll", "GetByID"}
WriteOps == {"Create", "Update", "Delete"}
BodyOps == {"Create", "Update"}
IdOps == {"GetByID", "Update", "Delete"}

\* sync.RWMutex: writer is the goroutine that holds the writer mutex (it is
\* either waiting for the active readers to leave or inside its critical
\* section), 0 when none; readers are the goroutines holding a read lock.
FreeMutex == [writer |-> 0, readers |-> {}]


\* --------------------------------------------------- the identity policy
\* The cases of the type switch in Create and Update (*models.Item and
\* *models.Client); any other shape falls through the switch.
IsModel(shape) == shape \in {"Item", "Client"}

\* uuid.New().String(): a canonical string not produced before.  The
\* generator may or may not hit an identifier a client names (PathIDs,
\* RawIDs); the identifiers no client ever names are interchangeable, so one
\* of them stands for all.
NewUUIDs(iss) ==
  LET fresh == UUIDs \ iss
      named == fresh \cap (PathIDs \cup RawIDs)
      unnamed == fresh \ named
  IN named \cup (IF unnamed = {} THEN {} ELSE {CHOOSE u \in unnamed : TRUE})

\* time.Now() when the previous reading was c: the same instant or a later
\* one (the model stops the clock at MaxClock).
Now(c) == {t \in c..(c + 1) : t <= MaxClock}

\* Mutant: Create leaves the identifier of raw in place.
AssignOnCreateKeepsID(dat, id, t1, t2) ==
  [dat EXCEPT !.CreatedAt = t1, !.UpdatedAt = t2]

\* Mutant: Create honours an identifier and timestamps that raw supplies.
AssignOnCreateHonoursRaw(dat, id, t1, t2) ==
  IF dat.ID # "" THEN dat
  ELSE [dat EXCEPT !.ID = id, !.CreatedAt = t1, !.UpdatedAt = t2]

\* v.ID = uuid.New().String(); v.CreatedAt = time.Now(); v.UpdatedAt = time.Now()
AssignOnCreate(dat, id, t1, t2) ==
  [dat EXCEPT !.ID = id, !.CreatedAt = t1, !.UpdatedAt = t2]

\* Mutant: Update merges, keeping the old value of a field raw omits.
AssignOnUpdateMerges(dat, id, old, t) ==
  [f \in DOMAIN dat |->
     CASE f = "ID" -> id
       [] f = "CreatedAt" -> old.CreatedAt
       [] f = "UpdatedAt" -> t
       [] OTHER -> IF dat[f] = "" THEN old[f] ELSE dat[f]]

\* Mutant: Update leaves the identifier of raw in place.
AssignOnUpdateKeepsRawID(dat, id, old, t) ==
  [dat EXCEPT !.CreatedAt = old.CreatedAt, !.UpdatedAt = t]

\* Mutant: Update stamps the creation time anew.
AssignOnUpdateRestamps(dat, id, old, t) ==
  [dat EXCEPT !.ID = id, !.CreatedAt = t, !.UpdatedAt = t]

\* Mutant: Update leaves the modification timestamp of raw in place.
AssignOnUpdateKeepsRawStamp(dat, id, old, t) ==
  [dat EXCEPT !.ID = id, !.CreatedAt = old.CreatedAt]

\* Mutant: Update copies the creation timestamp into the modification one.
AssignOnUpdateStampsCreation(dat, id, old, t) ==
  [dat EXCEPT !.ID = id, !.CreatedAt = old.CreatedAt, !.UpdatedAt = old.CreatedAt]

\* v.ID = id; v.CreatedAt = old.CreatedAt; v.UpdatedAt = time.Now()
AssignOnUpdate(dat, id, old, t) ==
  [dat EXCEPT !.ID = id, !.CreatedAt = old.CreatedAt, !.UpdatedAt = t]

\* ------------------------------------------------------------------- init
\* main.go: one store for items, one for clients, both empty.
MainStores == {"items", "clients"}

InitWith(ss) ==
  /\ stores = ss
  /\ items = [s \in ss |-> EmptyMap]
  /\ mu = [s \in ss |-> FreeMutex]
  /\ pc = [p \in Procs |-> "idle"]
  /\ req = [p \in Procs |-> NoReq]
  /\ data = [p \in Procs |-> NoData]
  /\ ret = [p \in Procs |-> NoRet]
  /\ status = NoStatus
  /\ clock = 1
  /\ issued = {}
  /\ nreq = 0
  /\ createLog = EmptyBag
  /\ updatedIDs = [s \in ss |-> {}]
  /\ deletedIDs = [s \in ss |-> {}]

Init == InitWith(MainStores)

\* --------------------------------------------------------------- handlers
\* The router hands a request to a handler method, in a goroutine of its own.
Receive(p) ==
  /\ pc[p] = "idle"
  /\ nreq < MaxRequests
  /\ \E s \in stores, op \in ReadOps \cup WriteOps :
       \E id \in (IF op \in IdOps THEN PathIDs ELSE {""}) :
         /\ req' = [req EXCEPT ![p] = [store |-> s, op |-> op, id |-> id]]
         /\ pc' = [pc EXCEPT ![p] = IF op \in BodyOps THEN "decode" ELSE "call"]
  /\ nreq' = nreq + 1
  /\ UNCHANGED <<stores, items, mu, data, ret, status, clock, issued,
                 createLog, updatedIDs, deletedIDs>>

\* Mutant: the handler notes the decode error but does not return, and goes
\* on to call the store with the zero record.
DecodeBodyIgnoresError(p) ==
  /\ pc[p] = "decode"
  /\ \E body \in Payloads(ShapeOf(req[p].store)) \cup {Malformed} :
       IF body = Malformed
         THEN /\ ret' = [ret EXCEPT ![p] = BadRequest]
              /\ data' = [data EXCEPT ![p] = ZeroRecord(ShapeOf(req[p].store))]
         ELSE /\ data' = [data EXCEPT ![p] = Decode(ShapeOf(req[p].store), body)]
              /\ ret' = ret
  /\ pc' = [pc EXCEPT ![p] = "call"]
  /\ UNCHANGED <<stores, items, mu, req, status, clock, issued, nreq,
                 createLog, updatedIDs, deletedIDs>>

\* json.NewDecoder(r.Body).Decode(&item) in the Create and Update handlers
\* reads the request body; on an error the handler skips the store call and
\* goes on to answer 400.
DecodeBody(p) ==
  /\ pc[p] = "decode"
  /\ \E body \in Payloads(ShapeOf(req[p].store)) \cup {Malformed} :
       IF body = Malformed
         THEN /\ ret' = [ret EXCEPT ![p] = BadRequest]
              /\ pc' = [pc EXCEPT ![p] = "respond"]
              /\ data' = data
         ELSE /\ data' = [data EXCEPT ![p] = Decode(ShapeOf(req[p].store), body)]
              /\ pc' = [pc EXCEPT ![p] = "call"]
              /\ ret' = ret
  /\ UNCHANGED <<stores, items, mu, req, status, clock, issued, nreq,
                 createLog, updatedIDs, deletedIDs>>

\* Mutant: a reader enters although a writer holds or waits for the lock.
RLockNoWait(p) ==
  /\ pc[p] = "call"
  /\ req[p].op \in ReadOps
  /\ mu' = [mu EXCEPT ![req[p].store].readers = @ \cup {p}]
  /\ pc' = [pc EXCEPT ![p] = "cs"]
  /\ UNCHANGED <<stores, items, req, data, ret, status, clock, issued, nreq,
                 createLog, updatedIDs, deletedIDs>>

\* ------------------------------------------------------------ the RWMutex
\* s.mu.RLock(): blocks while a writer holds or waits for the lock.
RLock(p) ==
  /\ pc[p] = "call"
  /\ req[p].op \in ReadOps
  /\ mu[req[p].store].writer = 0
  /\ mu' = [mu EXCEPT ![req[p].store].readers = @ \cup {p}]
  /\ pc' = [pc EXCEPT ![p] = "cs"]
  /\ UNCHANGED <<stores, items, req, data, ret, status, clock, issued, nreq,
                 createLog, updatedIDs, deletedIDs>>

\* Mutant: a writer takes the writer mutex although another writer has it.
LockBeginNoWait(p) ==
  /\ pc[p] = "call"
  /\ req[p].op \in WriteOps
  /\ mu' = [mu EXCEPT ![req[p].store].writer = p]
  /\ pc' = [pc EXCEPT ![p] = "lockwait"]
  /\ UNCHANGED <<stores, items, req, data, ret, status, clock, issued, nreq,
                 createLog, updatedIDs, deletedIDs>>

\* s.mu.Lock(), first half: take the writer mutex, which keeps later
\* readers and writers out.
LockBegin(p) ==
  /\ pc[p] = "call"
  /\ req[p].op \in WriteOps
  /\ mu[req[p].store].writer = 0
  /\ mu' = [mu EXCEPT ![req[p].store].writer = p]
  /\ pc' = [pc EXCEPT ![p] = "lockwait"]
  /\ UNCHANGED <<stores, items, req, data, ret, status, clock, issued, nreq,
                 createLog, updatedIDs, deletedIDs>>

\* Mutant: the writer enters without waiting for the active readers.
LockAcquireNoWait(p) ==
  /\ pc[p] = "lockwait"
  /\ pc' = [pc EXCEPT ![p] = "cs"]
  /\ UNCHANGED <<stores, items, mu, req, data, ret, status, clock, issued, nreq,
                 createLog, updatedIDs, deletedIDs>>

\* s.mu.Lock(), second half: wait until the active readers have left.
LockAcquire(p) ==
  /\ pc[p] = "lockwait"
  /\ mu[req[p].store].readers = {}
  /\ pc' = [pc EXCEPT ![p] = "cs"]
  /\ UNCHANGED <<stores, items, mu, req, data, ret, status, clock, issued, nreq,
                 createLog, updatedIDs, deletedIDs>>

\* defer s.mu.RUnlock()
RUnlocked(m, p) == [m EXCEPT !.readers = @ \ {p}]

\* Mutant: the write lock is not released when the store method returns.
UnlockedNever(m, p) == m

\* defer s.mu.Unlock()
Unlocked(m, p) == [m EXCEPT !.writer = 0]

\* ------------------------------------------------------ the store methods
GetAll(p) ==
  LET s == req[p].store IN
  /\ pc[p] = "cs"
  /\ req[p].op = "GetAll"
  /\ ret' = [ret EXCEPT ![p] = [op |-> "GetAll", rec |-> NoData, ok |-> TRUE,
                                list |-> MapValues(items[s])]]
  /\ mu' = [mu EXCEPT ![s] = RUnlocked(@, p)]
  /\ pc' = [pc EXCEPT ![p] = "respond"]
  /\ UNCHANGED <<stores, items, req, data, status, clock, issued, nreq,
                 createLog, updatedIDs, deletedIDs>>

\* Mutant: the lookup hands back the zero value in place of the entry.
LookupZero(m, id, zero) == [rec |-> zero, ok |-> Exists(m, id)]

\* item, exists := s.items[id]
Lookup(m, id, zero) == [rec |-> MapGet(m, id, zero), ok |-> Exists(m, id)]

GetByID(p) ==
  LET s == req[p].store
      r == Lookup(items[s], req[p].id, ZeroRecord(ShapeOf(s))) IN
  /\ pc[p] = "cs"
  /\ req[p].op = "GetByID"
  /\ ret' = [ret EXCEPT ![p] = [op |-> "GetByID", rec |-> r.rec, ok |-> r.ok,
                                list |-> EmptyBag]]
  /\ mu' = [mu EXCEPT ![s] = RUnlocked(@, p)]
  /\ pc' = [pc EXCEPT ![p] = "respond"]
  /\ UNCHANGED <<stores, items, req, data, status, clock, issued, nreq,
                 createLog, updatedIDs, deletedIDs>>

\* Mutant: the stores share one map, so a Create shows in every store.
CreateInAllStores(p) ==
  LET s == req[p].store IN
  /\ pc[p] = "cs"
  /\ req[p].op = "Create"
  /\ \E id \in NewUUIDs(issued), t1 \in Now(clock) :
       \E t2 \in Now(t1) :
         LET v == AssignOnCreate(data[p], id, t1, t2) IN
         /\ items' = [t \in stores |-> MapPut(items[t], v.ID, v)]
         /\ ret' = [ret EXCEPT ![p] = [op |-> "Create", rec |-> v,
                                       ok |-> TRUE, list |-> EmptyBag]]
         /\ createLog' = createLog (+) SetToBag({<<s, v>>})
         /\ issued' = issued \cup {id}
         /\ clock' = t2
  /\ mu' = [mu EXCEPT ![s] = Unlocked(@, p)]
  /\ pc' = [pc EXCEPT ![p] = "respond"]
  /\ UNCHANGED <<stores, req, data, status, nreq, updatedIDs, deletedIDs>>

Create(p) ==
  LET s == req[p].store IN
  /\ pc[p] = "cs"
  /\ req[p].op = "Create"
  /\ IF IsModel(ShapeOf(s))
       THEN \E id \in NewUUIDs(issued), t1 \in Now(clock) :
              \E t2 \in Now(t1) :
                LET v == AssignOnCreate(data[p], id, t1, t2) IN
                /\ items' = [items EXCEPT ![s] = MapPut(@, v.ID, v)]
                /\ ret' = [ret EXCEPT ![p] = [op |-> "Create", rec |-> v,
                                              ok |-> TRUE, list |-> EmptyBag]]
                /\ createLog' = createLog (+) SetToBag({<<s, v>>})
                /\ issued' = issued \cup {id}
                /\ clock' = t2
       ELSE /\ ret' = [ret EXCEPT ![p] = [op |-> "Create", rec |-> data[p],
                                          ok |-> TRUE, list |-> EmptyBag]]
            /\ createLog' = createLog (+) SetToBag({<<s, data[p]>>})
            /\ UNCHANGED <<items, issued, clock>>
  /\ mu' = [mu EXCEPT ![s] = Unlocked(@, p)]
  /\ pc' = [pc EXCEPT ![p] = "respond"]
  /\ UNCHANGED <<stores, req, data, status, nreq, updatedIDs, deletedIDs>>

Update(p) ==
  LET s == req[p].store
      id == req[p].id IN
  /\ pc[p] = "cs"
  /\ req[p].op = "Update"
  /\ IF ~Exists(items[s], id)
       THEN /\ ret' = [ret EXCEPT ![p] =
                         [op |-> "Update", rec |-> ZeroRecord(ShapeOf(s)),
                          ok |-> FALSE, list |-> EmptyBag]]
            /\ UNCHANGED <<items, clock, updatedIDs>>
       ELSE IF IsModel(ShapeOf(s))
         THEN \E t \in Now(clock) :
                LET old == MapGet(items[s], id, ZeroRecord(ShapeOf(s)))
                    v == AssignOnUpdate(data[p], id, old, t) IN
                /\ items' = [items EXCEPT ![s] = MapPut(@, id, v)]
                /\ ret' = [ret EXCEPT ![p] = [op |-> "Update", rec |-> v,
                                              ok |-> TRUE, list |-> EmptyBag]]
                /\ clock' = t
                /\ updatedIDs' = [updatedIDs EXCEPT ![s] = @ \cup {id}]
         ELSE /\ ret' = [ret EXCEPT ![p] = [op |-> "Update", rec |-> data[p],
                                            ok |-> TRUE, list |-> EmptyBag]]
              /\ updatedIDs' = [updatedIDs EXCEPT ![s] = @ \cup {id}]
              /\ UNCHANGED <<items, clock>>
  /\ mu' = [mu EXCEPT ![s] = Unlocked(@, p)]
  /\ pc' = [pc EXCEPT ![p] = "respond"]
  /\ UNCHANGED <<stores, req, data, status, issued, nreq, createLog, deletedIDs>>

Delete(p) ==
  LET s == req[p].store
      id == req[p].id IN
  /\ pc[p] = "cs"
  /\ req[p].op = "Delete"
  /\ IF ~Exists(items[s], id)
       THEN /\ ret' = [ret EXCEPT ![p] = [op |-> "Delete", rec |-> NoData,
                                          ok |-> FALSE, list |-> EmptyBag]]
            /\ UNCHANGED <<items, deletedIDs>>
       ELSE /\ items' = [items EXCEPT ![s] = MapDelete(@, id)]
            /\ ret' = [ret EXCEPT ![p] = [op |-> "Delete", rec |-> NoData,
                                          ok |-> TRUE, list |-> EmptyBag]]
            /\ deletedIDs' = [deletedIDs EXCEPT ![s] = @ \cup {id}]
  /\ mu' = [mu EXCEPT ![s] = Unlocked(@, p)]
  /\ pc' = [pc EXCEPT ![p] = "respond"]
  /\ UNCHANGED <<stores, req, data, status, clock, issued, nreq,
                 createLog, updatedIDs>>

\* Mutant: the Delete handler answers 204 whatever the store returned.
StatusOfDeleteAlways204(r) ==
  CASE r.op = "GetAll" -> 200
    [] r.op = "GetByID" -> IF r.ok THEN 200 ELSE 404
    [] r.op = "Create" -> 201
    [] r.op = "Update" -> IF r.ok THEN 200 ELSE 404
    [] r.op = "Delete" -> 204
    [] r.op = "BadRequest" -> 400

\* The status code each handler writes after its store call returned.
StatusOf(r) ==
  CASE r.op = "GetAll" -> 200
    [] r.op = "GetByID" -> IF r.ok THEN 200 ELSE 404
    [] r.op = "Create" -> 201
    [] r.op = "Update" -> IF r.ok THEN 200 ELSE 404
    [] r.op = "Delete" -> IF r.ok THEN 204 ELSE 404
    [] r.op = "BadRequest" -> 400

\* w.WriteHeader(...) and json.NewEncoder(w).Encode(...) end the request.
Respond(p) ==
  /\ pc[p] = "respond"
  /\ status' = StatusOf(ret[p])
  /\ pc' = [pc EXCEPT ![p] = "idle"]
  /\ req' = [req EXCEPT ![p] = NoReq]
  /\ data' = [data EXCEPT ![p] = NoData]
  /\ ret' = [ret EXCEPT ![p] = NoRet]
  /\ UNCHANGED <<stores, items, mu, clock, issued, nreq,
                 createLog, updatedIDs, deletedIDs>>

Next ==
  \E p \in Procs :
    \/ Receive(p)
    \/ DecodeBody(p)
    \/ RLock(p)
    \/ LockBegin(p)
    \/ LockAcquire(p)
    \/ GetAll(p)
    \/ GetByID(p)
    \/ Create(p)
    \/ Update(p)
    \/ Delete(p)
    \/ Respond(p)

Spec == Init /\ [][Next]_vars

\* MemoryStore[T any] instantiated with a record shape the type switch does
\* not list (models.Order of ADDING_RESOURCES.md), next to the items store.
InitAnyShape == InitWith({"items", "orders"})

SpecAnyShape == InitAnyShape /\ [][Next]_vars


\* ------------------------------------- the store methods, access by access
\* The same program with the bodies of GetAll, Update and Delete taken one
\* map access at a time, so that steps of other goroutines may fall between
\* the accesses of one call wherever the lock lets them.  pc "cs2" is the
\* point after the existence check of Update and Delete; a GetAll collects
\* its slice in ret[p].list while it ranges over the map.

\* The keys whose records the range loop of GetAll has appended so far.
Visited(l) == {r.ID : r \in BagToSet(l)}

\* for _, item := range s.items { items = append(items, item) }: one round.
GetAllVisit(p) ==
  LET s == req[p].store IN
  /\ pc[p] = "cs"
  /\ req[p].op = "GetAll"
  /\ \E k \in (DOMAIN items[s]) \ Visited(ret[p].list) :
       ret' = [ret EXCEPT ![p].list = @ (+) SetToBag({items[s][k]})]
  /\ UNCHANGED <<stores, items, mu, pc, req, data, status, clock, issued, nreq,
                 createLog, updatedIDs, deletedIDs>>

\* The range loop has no key left: return items, and the deferred RUnlock.
GetAllDone(p) ==
  LET s == req[p].store IN
  /\ pc[p] = "cs"
  /\ req[p].op = "GetAll"
  /\ (DOMAIN items[s]) \subseteq Visited(ret[p].list)
  /\ ret' = [ret EXCEPT ![p] = [op |-> "GetAll", rec |-> NoData, ok |-> TRUE,
                                list |-> ret[p].list]]
  /\ mu' = [mu EXCEPT ![s] = RUnlocked(@, p)]
  /\ pc' = [pc EXCEPT ![p] = "respond"]
  /\ UNCHANGED <<stores, items, req, data, status, clock, issued, nreq,
                 createLog, updatedIDs, deletedIDs>>

\* Mutant: the early return of Update leaves without releasing the lock, as
\* it would without the defer.
UpdateCheckKeepsLock(p) ==
  LET s == req[p].store
      id == req[p].id IN
  /\ pc[p] = "cs"
  /\ req[p].op = "Update"
  /\ IF ~Exists(items[s], id)
       THEN /\ ret' = [ret EXCEPT ![p] =
                         [op |-> "Update", rec |-> ZeroRecord(ShapeOf(s)),
                          ok |-> FALSE, list |-> EmptyBag]]
            /\ pc' = [pc EXCEPT ![p] = "respond"]
       ELSE /\ pc' = [pc EXCEPT ![p] = "cs2"]
            /\ ret' = ret
  /\ UNCHANGED <<stores, items, mu, req, data, status, clock, issued, nreq,
                 createLog, updatedIDs, deletedIDs>>

\* if _, exists := s.items[id]; !exists { return zero, false } of Update.
UpdateCheck(p) ==
  LET s == req[p].store
      id == req[p].id IN
  /\ pc[p] = "cs"
  /\ req[p].op = "Update"
  /\ IF ~Exists(items[s], id)
       THEN /\ ret' = [ret EXCEPT ![p] =
                         [op |-> "Update", rec |-> ZeroRecord(ShapeOf(s)),
                          ok |-> FALSE, list |-> EmptyBag]]
            /\ mu' = [mu EXCEPT ![s] = Unlocked(@, p)]
            /\ pc' = [pc EXCEPT ![p] = "respond"]
       ELSE /\ pc' = [pc EXCEPT ![p] = "cs2"]
            /\ UNCHANGED <<ret, mu>>
  /\ UNCHANGED <<stores, items, req, data, status, clock, issued, nreq,
                 createLog, updatedIDs, deletedIDs>>

\* The type switch of Update: old := s.items[id], the three assignments,
\* s.items[id] = ..., return data, true, and the deferred Unlock.
UpdateWrite(p) ==
  LET s == req[p].store
      id == req[p].id IN
  /\ pc[p] = "cs2"
  /\ req[p].op = "Update"
  /\ IF IsModel(ShapeOf(s))
       THEN \E t \in Now(clock) :
              LET old == MapGet(items[s], id, ZeroRecord(ShapeOf(s)))
                  v == AssignOnUpdate(data[p], id, old, t) IN
              /\ items' = [items EXCEPT ![s] = MapPut(@, id, v)]
              /\ ret' = [ret EXCEPT ![p] = [op |-> "Update", rec |-> v,
                                            ok |-> TRUE, list |-> EmptyBag]]
              /\ clock' = t
       ELSE /\ ret' = [ret EXCEPT ![p] = [op |-> "Update", rec |-> data[p],
                                          ok |-> TRUE, list |-> EmptyBag]]
            /\ UNCHANGED <<items, clock>>
  /\ updatedIDs' = [updatedIDs EXCEPT ![s] = @ \cup {id}]
  /\ mu' = [mu EXCEPT ![s] = Unlocked(@, p)]
  /\ pc' = [pc EXCEPT ![p] = "respond"]
  /\ UNCHANGED <<stores, req, data, status, issued, nreq, createLog, deletedIDs>>

\* if _, exists := s.items[id]; !exists { return false } of Delete.
DeleteCheck(p) ==
  LET s == req[p].store
      id == req[p].id IN
  /\ pc[p] = "cs"
  /\ req[p].op = "Delete"
  /\ IF ~Exists(items[s], id)
       THEN /\ ret' = [ret EXCEPT ![p] = [op |-> "Delete", rec |-> NoData,
                                          ok |-> FALSE, list |-> EmptyBag]]
            /\ mu' = [mu EXCEPT ![s] = Unlocked(@, p)]
            /\ pc' = [pc EXCEPT ![p] = "respond"]
       ELSE /\ pc' = [pc EXCEPT ![p] = "cs2"]
            /\ UNCHANGED <<ret, mu>>
  /\ UNCHANGED <<stores, items, req, data, status, clock, issued, nreq,
                 createLog, updatedIDs, deletedIDs>>

\* delete(s.items, id), return true, and the deferred Unlock.
DeleteRemove(p) ==
  LET s == req[p].store
      id == req[p].id IN
  /\ pc[p] = "cs2"
  /\ req[p].op = "Delete"
  /\ items' = [items EXCEPT ![s] = MapDelete(@, id)]
  /\ ret' = [ret EXCEPT ![p] = [op |-> "Delete", rec |-> NoData,
                                ok |-> TRUE, list |-> EmptyBag]]
  /\ deletedIDs' = [deletedIDs EXCEPT ![s] = @ \cup {id}]
  /\ mu' = [mu EXCEPT ![s] = Unlocked(@, p)]
  /\ pc' = [pc EXCEPT ![p] = "respond"]
  /\ UNCHANGED <<stores, req, data, status, clock, issued, nreq,
                 createLog, updatedIDs>>

NextFine ==
  \E p \in Procs :
    \/ Receive(p)
    \/ DecodeBody(p)
    \/ RLock(p)
    \/ LockBegin(p)
    \/ LockAcquire(p)
    \/ GetAllVisit(p)
    \/ GetAllDone(p)
    \/ GetByID(p)
    \/ Create(p)
    \/ UpdateCheck(p)
    \/ UpdateWrite(p)
    \/ DeleteCheck(p)
    \/ DeleteRemove(p)
    \/ Respond(p)

\* One store instance, the items store of main.
InitFine == InitWith({"items"})

SpecFine == InitFine /\ [][NextFine]_vars

\* The steps of goroutine p once its request has been received.  The Go
\* scheduler runs a goroutine that stays runnable, and sync.RWMutex hands the
\* lock on when it is released.
Proceed(p) ==
  \/ DecodeBody(p)
  \/ RLock(p)
  \/ LockBegin(p)
  \/ LockAcquire(p)
  \/ GetAllVisit(p)
  \/ GetAllDone(p)
  \/ GetByID(p)
  \/ Create(p)
  \/ UpdateCheck(p)
  \/ UpdateWrite(p)
  \/ DeleteCheck(p)
  \/ DeleteRemove(p)
  \/ Respond(p)

SpecFair == SpecFine /\ \A p \in Procs : WF_vars(Proceed(p))

\* ================================================================= claims
\* The records the Creates on store s have returned so far.
CreatedIn(s) == {e[2] : e \in {x \in BagToSet(createLog) : x[1] = s}}

\* Number of Create calls on store s that have returned.
NumCreated(s) ==
  BagCardinality([e \in {x \in BagToSet(createLog) : x[1] = s} |-> createLog[e]])

\* In this step the store method op, called by goroutine p, runs and returns.
Returns(p, op) == pc[p] = "cs" /\ pc'[p] = "respond" /\ req[p].op = op

\* The store method op has returned to goroutine p, which has not answered yet.
Returned(p, op) == pc[p] = "respond" /\ ret[p].op = op

\* C1: whatever the sequence or interleaving of Create calls, every record a
\* Create returned carries a non-empty identifier, and no two Creates on the
\* same store returned the same identifier.
C1_CreatedIDsUniqueNonEmpty ==
  \A e \in BagToSet(createLog) :
    /\ e[2].ID # ""
    /\ createLog[e] = 1
    /\ \A f \in BagToSet(createLog) :
         (f[1] = e[1] /\ f # e) => f[2].ID # e[2].ID

\* Two overlapping Creates on one store have both returned.
C1_Witness ==
  \E p, q \in Procs :
    /\ p # q
    /\ Returned(p, "Create") /\ Returned(q, "Create")
    /\ req[p].store = req[q].store
    /\ NumCreated(req[p].store) >= 2

\* C2: on a store of any record shape, Create inserts the record it returns
\* under that record's identifier: the store holds one more record and the
\* returned identifier maps to the returned record.
C2_CreateInsertsForAnyShape ==
  [][\A p \in Procs :
       Returns(p, "Create") =>
         LET s == req[p].store
             r == ret'[p].rec IN
         /\ Cardinality(DOMAIN items'[s]) = Cardinality(DOMAIN items[s]) + 1
         /\ r.ID \in DOMAIN items'[s]
         /\ items'[s][r.ID] = r]_vars

\* C3: a GetByID on the identifier of a record r that a Create returned, with
\* no successful Update or Delete on that identifier in between, reports
\* found and returns a record equal to r in every field.
C3_GetAfterCreate ==
  [][\A p \in Procs :
       Returns(p, "GetByID") =>
         \A r \in CreatedIn(req[p].store) :
           (/\ r.ID = req[p].id
            /\ r.ID \notin updatedIDs[req[p].store]
            /\ r.ID \notin deletedIDs[req[p].store])
           => (ret'[p].ok /\ ret'[p].rec = r)]_vars

\* A GetByID has found a record that is still as its Create returned it.
C3_Witness ==
  \E p \in Procs :
    /\ Returned(p, "GetByID")
    /\ ret[p].ok
    /\ ret[p].rec \in CreatedIn(req[p].store)
    /\ req[p].id \notin updatedIDs[req[p].store]
    /\ req[p].id \notin deletedIDs[req[p].store]

\* C4: an Update or a Delete on an identifier that is not stored reports
\* not-found and leaves every store's map as it was; a mutation that does
\* report success has applied in full (Update: the returned record is stored
\* under id; Delete: id is gone; Create: the returned record is stored).
C4_MissingIdIsNoOp ==
  [][\A p \in Procs :
       LET s == req[p].store
           id == req[p].id IN
       /\ (Returns(p, "Update") \/ Returns(p, "Delete")) =>
            IF id \notin DOMAIN items[s]
              THEN ~ret'[p].ok /\ items' = items
              ELSE ret'[p].ok
       /\ (Returns(p, "Update") /\ ret'[p].ok) =>
            (id \in DOMAIN items'[s] /\ items'[s][id] = ret'[p].rec)
       /\ (Returns(p, "Delete") /\ ret'[p].ok) => id \notin DOMAIN items'[s]
       /\ Returns(p, "Create") =>
            (/\ ret'[p].rec.ID \in DOMAIN items'[s]
             /\ items'[s][ret'[p].rec.ID] = ret'[p].rec)]_vars

\* An Update or Delete has reported not-found on a store that holds records.
C4_Witness ==
  \E p \in Procs :
    /\ Returned(p, "Update") \/ Returned(p, "Delete")
    /\ ~ret[p].ok
    /\ items[req[p].store] # EmptyMap

\* C5: an Update on a stored identifier is a full replacement: the record
\* stored and returned has every domain field of raw (so a field raw omits is
\* cleared), identifier id, and the creation timestamp of the record stored
\* before, whatever raw carried in those two fields.
C5_UpdateReplaces ==
  [][\A p \in Procs :
       LET s == req[p].store
           id == req[p].id IN
       (Returns(p, "Update") /\ id \in DOMAIN items[s]) =>
         /\ ret'[p].ok
         /\ items'[s][id] = ret'[p].rec
         /\ \A f \in DomainFields(data[p]) : ret'[p].rec[f] = data[p][f]
         /\ DOMAIN ret'[p].rec = DOMAIN data[p]
         /\ ret'[p].rec.ID = id
         /\ ret'[p].rec.CreatedAt = items[s][id].CreatedAt]_vars

\* An Update has succeeded with a raw record that omitted a domain field the
\* created record had, and that carried another identifier and another
\* creation timestamp than the stored record.
C5_Witness ==
  \E p \in Procs :
    /\ Returned(p, "Update")
    /\ ret[p].ok
    /\ data[p].ID # ret[p].rec.ID
    /\ data[p].CreatedAt # ret[p].rec.CreatedAt
    /\ \E r \in CreatedIn(req[p].store) :
         /\ r.ID = ret[p].rec.ID
         /\ \E f \in DomainFields(r) : r[f] # "" /\ ret[p].rec[f] = ""


\* C6: once a Delete of id has returned true, the store never again holds a
\* record under id: every later GetByID(id) reports not-found and no later
\* GetAll result contains a record with that identifier, whatever follows.
C6_DeletedStaysGone ==
  [][/\ \A s \in stores : deletedIDs'[s] \cap DOMAIN items'[s] = {}
     /\ \A p \in Procs :
          /\ (Returns(p, "GetByID") /\ req[p].id \in deletedIDs[req[p].store])
               => ~ret'[p].ok
          /\ Returns(p, "GetAll") =>
               \A r \in BagToSet(ret'[p].list) :
                 r.ID \notin deletedIDs[req[p].store]]_vars

\* A GetByID on a deleted identifier has returned.
C6_Witness ==
  \E p \in Procs :
    /\ Returned(p, "GetByID")
    /\ req[p].id \in deletedIDs[req[p].store]
    /\ ~ret[p].ok

\* C7: no creation is lost or overwritten: as long as no Delete succeeded on
\* a store, a GetAll returns as many records as Creates have returned on that
\* store, under as many distinct identifiers, whatever the interleaving.
C7_NoCreateLost ==
  [][\A p \in Procs :
       (Returns(p, "GetAll") /\ deletedIDs[req[p].store] = {}) =>
         /\ BagCardinality(ret'[p].list) = NumCreated(req[p].store)
         /\ Cardinality({r.ID : r \in BagToSet(ret'[p].list)})
              = NumCreated(req[p].store)]_vars

\* A GetAll has listed the records of two Creates.
C7_Witness ==
  \E p \in Procs :
    /\ Returned(p, "GetAll")
    /\ deletedIDs[req[p].store] = {}
    /\ NumCreated(req[p].store) >= 2
    /\ BagCardinality(ret[p].list) >= 1

\* C8: Create discards the identifier and timestamps of raw: the record is
\* stored under an identifier that was never handed out before, its
\* timestamps are readings of the clock taken during the call, and every
\* record stored before the call is still stored, unchanged, also when raw's
\* ID field names one of them.
C8_CreateDiscardsIdentity ==
  [][\A p \in Procs :
       Returns(p, "Create") =>
         LET s == req[p].store
             r == ret'[p].rec IN
         /\ r.ID \notin issued
         /\ r.ID \notin DOMAIN items[s]
         /\ items'[s][r.ID] = r
         /\ clock <= r.CreatedAt /\ r.CreatedAt <= r.UpdatedAt
         /\ r.UpdatedAt = clock'
         /\ \A k \in DOMAIN items[s] :
              k \in DOMAIN items'[s] /\ items'[s][k] = items[s][k]]_vars

\* A Create has returned whose raw record named the identifier of a record
\* that is stored.
C8_Witness ==
  \E p \in Procs :
    /\ Returned(p, "Create")
    /\ data[p].ID \in DOMAIN items[req[p].store]
    /\ data[p].ID # ret[p].rec.ID
    /\ data[p].CreatedAt # ZeroTime

\* C9: in every reachable state no key of a store's map is the empty string
\* and the record stored under key k has identifier k.
C9_KeysMatchIDs ==
  \A s \in stores :
    \A k \in DOMAIN items[s] : k # "" /\ items[s][k].ID = k

\* A store holds two records, one of which an Update has replaced.
C9_Witness ==
  \E s \in stores :
    /\ Cardinality(DOMAIN items[s]) >= 2
    /\ updatedIDs[s] \cap DOMAIN items[s] # {}

\* C10: as long as the record a Create returned is stored, the record held
\* under its identifier has that identifier and the creation timestamp the
\* Create gave it, across any Updates in between.
C10_IdentityKept ==
  \A e \in BagToSet(createLog) :
    LET s == e[1]
        r == e[2] IN
    r.ID \in DOMAIN items[s] =>
      /\ items[s][r.ID].ID = r.ID
      /\ items[s][r.ID].CreatedAt = r.CreatedAt

\* A stored record has been replaced by an Update at a later clock reading,
\* with a raw record that carried a creation timestamp of its own.
C10_Witness ==
  \E e \in BagToSet(createLog) :
    LET s == e[1]
        r == e[2] IN
    /\ r.ID \in DOMAIN items[s]
    /\ r.ID \in updatedIDs[s]
    /\ items[s][r.ID].UpdatedAt > r.CreatedAt
    /\ \E p \in Procs :
         /\ Returned(p, "Update") /\ ret[p].ok /\ req[p].store = s
         /\ req[p].id = r.ID
         /\ data[p].CreatedAt \notin {ZeroTime, r.CreatedAt}

\* C11: the modification timestamp of the record held under an identifier
\* never decreases while the record is stored, and a successful Update sets
\* it to the clock reading of that call, which is not earlier than the value
\* stored before, also when Updates of one identifier overlap.
C11_UpdatedAtNeverDecreases ==
  [][/\ \A s \in stores :
          \A k \in (DOMAIN items[s]) \cap (DOMAIN items'[s]) :
            items'[s][k].UpdatedAt >= items[s][k].UpdatedAt
     /\ \A p \in Procs :
          (Returns(p, "Update") /\ ret'[p].ok) =>
            /\ ret'[p].rec.UpdatedAt = clock'
            /\ clock' >= clock
            /\ ret'[p].rec.UpdatedAt
                 >= items[req[p].store][req[p].id].UpdatedAt]_vars

\* Two overlapping Updates of one record have both succeeded, and the record
\* now carries a later modification timestamp than its Create gave it.
C11_Witness ==
  \E p, q \in Procs :
    /\ p # q
    /\ Returned(p, "Update") /\ ret[p].ok
    /\ Returned(q, "Update") /\ ret[q].ok
    /\ req[p].store = req[q].store /\ req[p].id = req[q].id
    /\ \E r \in CreatedIn(req[p].store) :
         /\ r.ID = req[p].id
         /\ r.ID \in DOMAIN items[req[p].store]
         /\ items[req[p].store][r.ID].UpdatedAt > r.UpdatedAt

\* C12: every record a Create returned has its creation timestamp equal to
\* its modification timestamp.
C12_CreateStampsEqual ==
  \A e \in BagToSet(createLog) : e[2].CreatedAt = e[2].UpdatedAt

\* C13 as stated: a successful Update returns a modification timestamp
\* strictly later than the one the record had before.
C13_UpdateStrictlyLater ==
  [][\A p \in Procs :
       (Returns(p, "Update") /\ ret'[p].ok) =>
         ret'[p].rec.UpdatedAt > items[req[p].store][req[p].id].UpdatedAt]_vars

\* C13 amended: a successful Update returns a modification timestamp that is
\* later than or equal to the one the record had before.
C13_UpdateNotEarlier ==
  [][\A p \in Procs :
       (Returns(p, "Update") /\ ret'[p].ok) =>
         ret'[p].rec.UpdatedAt >= items[req[p].store][req[p].id].UpdatedAt]_vars

\* An Update of a created record has returned a modification timestamp equal
\* to the one the Create gave it: the clock read the same twice.
C13_Witness ==
  \E p \in Procs :
    /\ Returned(p, "Update") /\ ret[p].ok
    /\ \E r \in CreatedIn(req[p].store) :
         r.ID = req[p].id /\ ret[p].rec.UpdatedAt = r.UpdatedAt

\* C14: GetAll returns the records of the map at that moment, one element
\* per key and nothing else, and the empty (non-nil) slice for an empty map.
C14_GetAllListsMap ==
  [][\A p \in Procs :
       Returns(p, "GetAll") =>
         LET m == items[req[p].store]
             l == ret'[p].list IN
         /\ ret'[p].ok
         /\ BagToSet(l) = {m[k] : k \in DOMAIN m}
         /\ \A r \in BagToSet(l) : l[r] = 1
         /\ BagCardinality(l) = Cardinality(DOMAIN m)
         /\ (m = EmptyMap) => (l = EmptyBag)]_vars

\* A GetAll has returned the record of a store that holds one, and another
\* has returned the empty slice of an empty store.
C14_Witness ==
  \E p, q \in Procs :
    /\ Returned(p, "GetAll") /\ BagCardinality(ret[p].list) >= 1
    /\ Returned(q, "GetAll") /\ ret[q].list = EmptyBag
    /\ items[req[q].store] = EmptyMap

\* The store that goroutine p works on in this step, if p takes the step.
StepsOn(p, s) ==
  /\ pc'[p] # pc[p]
  /\ s \in {req[p].store, req'[p].store}

\* C15: a step of a request on one store leaves the map and the lock of
\* every other store as they were, and a GetByID finds an identifier only if
\* a Create on that same store returned it.
C15_StoresIndependent ==
  [][\A p \in Procs :
       /\ \A s \in stores :
            StepsOn(p, s) =>
              \A t \in stores \ {s} : items'[t] = items[t] /\ mu'[t] = mu[t]
       /\ (Returns(p, "GetByID") /\ ret'[p].ok) =>
            \E r \in CreatedIn(req[p].store) : r.ID = req[p].id]_vars

\* A GetByID has reported not found for an identifier that another store
\* holds at that moment.
C15_Witness ==
  \E p \in Procs :
    /\ Returned(p, "GetByID") /\ ~ret[p].ok
    /\ \E t \in stores \ {req[p].store} : req[p].id \in DOMAIN items[t]

\* In this step goroutine p writes its answer and ends the request.
Answers(p) == pc[p] = "respond" /\ pc'[p] = "idle"

\* C16: when a handler answers after its store call, GET /{id} and PUT /{id}
\* answer 404 exactly when the store reported not found and 200 otherwise,
\* DELETE /{id} answers 204 on true and 404 on false, and POST answers 201.
C16_StatusFollowsStore ==
  [][\A p \in Procs :
       (Answers(p) /\ ret[p] # BadRequest) =>
         /\ (req[p].op \in {"GetByID", "Update"}) =>
              /\ (status' = 404) <=> ~ret[p].ok
              /\ (status' = 200) <=> ret[p].ok
         /\ (req[p].op = "Delete") =>
              status' = (IF ret[p].ok THEN 204 ELSE 404)
         /\ (req[p].op = "Create") => status' = 201]_vars

\* A DELETE has been answered 204 and a second Delete, of the identifier now
\* gone, has returned false and is about to be answered.
C16_Witness ==
  /\ status = 204
  /\ \E p \in Procs :
       /\ Returned(p, "Delete") /\ ~ret[p].ok
       /\ req[p].id \in deletedIDs[req[p].store]

\* C17: a POST or PUT whose body does not decode goes from decoding straight
\* to its answer, which is 400; it never reaches the store call, and neither
\* step changes any store's map or lock, whether or not the path identifier
\* is stored.
C17_UndecodableIs400 ==
  [][\A p \in Procs :
       /\ (ret'[p] = BadRequest) => (pc'[p] = "respond" /\ req'[p].op \in BodyOps)
       /\ (pc[p] = "decode" /\ pc'[p] = "respond") =>
            ret'[p] = BadRequest /\ items' = items /\ mu' = mu
       /\ (Answers(p) /\ ret[p] = BadRequest) =>
            status' = 400 /\ items' = items /\ mu' = mu]_vars

\* A PUT on a stored identifier whose body did not decode is about to be
\* answered.
C17_Witness ==
  \E p \in Procs :
    /\ pc[p] = "respond" /\ ret[p] = BadRequest
    /\ req[p].op = "Update"
    /\ req[p].id \in DOMAIN items[req[p].store]

\* Goroutine p is inside the critical section of store s.
InCS(p, s) == pc[p] = "cs" /\ req[p].store = s

\* C18: while a Create, Update or Delete is inside the critical section of a
\* store, no other operation is inside it; only GetAll and GetByID calls are
\* ever inside together.
C18_WriterExcludesAll ==
  \A s \in stores :
    \A p, q \in Procs :
      (p # q /\ InCS(p, s) /\ InCS(q, s)) =>
        (req[p].op \in ReadOps /\ req[q].op \in ReadOps)

\* Two readers are inside the critical section of one store at once.
C18_Witness ==
  \E s \in stores :
    \E p, q \in Procs :
      /\ p # q /\ InCS(p, s) /\ InCS(q, s)
      /\ req[p].op = "GetAll" /\ req[q].op = "GetByID"

\* In this step the store method op, taken access by access, returns to p.
ReturnsFine(p, op) ==
  pc[p] \in {"cs", "cs2"} /\ pc'[p] = "respond" /\ req[p].op = op

\* C19: with the store methods taken one map access at a time, every call
\* takes effect at one instant between its invocation and its return, the
\* step in which it returns: only such a step changes the map, and the result
\* and the new map are those of the whole operation applied to the map as it
\* is at that step; a GetAll returns the map of that one instant.
C19_Linearizable ==
  [][/\ (items' # items) => \E p \in Procs : pc[p] \in {"cs", "cs2"} /\ pc'[p] = "respond"
     /\ \A p \in Procs :
          LET s == req[p].store
              id == req[p].id
              m == items[s]
              r == ret'[p] IN
          /\ ReturnsFine(p, "GetAll") =>
               r.list = MapValues(m) /\ items' = items
          /\ ReturnsFine(p, "GetByID") =>
               /\ r.ok = Exists(m, id)
               /\ r.rec = MapGet(m, id, ZeroRecord(ShapeOf(s)))
               /\ items' = items
          /\ ReturnsFine(p, "Create") =>
               /\ r.rec.ID \notin DOMAIN m
               /\ items'[s] = MapPut(m, r.rec.ID, r.rec)
          /\ ReturnsFine(p, "Update") =>
               IF Exists(m, id)
                 THEN /\ r.ok
                      /\ items'[s] = MapPut(m, id, r.rec)
                      /\ r.rec.ID = id
                      /\ r.rec.CreatedAt = m[id].CreatedAt
                      /\ \A f \in DomainFields(r.rec) : r.rec[f] = data[p][f]
                 ELSE ~r.ok /\ items' = items
          /\ ReturnsFine(p, "Delete") =>
               /\ r.ok = Exists(m, id)
               /\ items'[s] = MapDelete(m, id)]_vars

\* A GetAll has returned a stored record while a writer that was invoked
\* during it waits for the lock.
C19_Witness ==
  \E p, q \in Procs :
    /\ Returned(p, "GetAll") /\ ret[p].list # EmptyBag
    /\ pc[q] = "lockwait" /\ req[q].store = req[p].store

\* Goroutine p holds the lock of store s, or the writer mutex inside it.
Holds(p, s) == mu[s].writer = p \/ p \in mu[s].readers

\* C20: a goroutine holds a lock only between its acquisition and the return
\* of its store method, so none is held once the method has returned, on the
\* early returns as well; and under fair scheduling every request that was
\* received is answered, so no state blocks a request for ever.
C20_ReleasesAndCompletes ==
  /\ [](\A p \in Procs : \A s \in stores :
          Holds(p, s) => (pc[p] \in {"lockwait", "cs", "cs2"} /\ req[p].store = s))
  /\ \A p \in Procs : (pc[p] # "idle") ~> (pc[p] = "idle")

\* An Update has left by its early return, and after it another writer is
\* inside the critical section of the same store.
C20_Witness ==
  \E p, q \in Procs :
    /\ Returned(p, "Update") /\ ~ret[p].ok
    /\ pc[q] \in {"cs", "cs2"} /\ req[q].op \in WriteOps
    /\ req[q].store = req[p].store

\* C21: a handler that is decoding its request body or writing its answer
\* holds neither the read lock nor the write lock of any store, nor waits
\* inside one: the write lock is taken after the body was decoded and given
\* back before the answer is encoded.
C21_NoLockAroundCodec ==
  \A p \in Procs :
    (pc[p] \in {"decode", "respond"}) =>
      \A s \in stores : mu[s].writer # p /\ p \notin mu[s].readers

\* A handler is decoding its body or encoding its answer while a writer of
\* another request is inside the critical section of the same store.
C21_Witness ==
  \E p, q \in Procs :
    /\ p # q
    /\ pc[p] \in {"decode", "respond"}
    /\ InCS(q, req[p].store) /\ req[q].op \in WriteOps

\* Goroutine p has an Update and goroutine q a Delete in progress, both on
\* identifier id of store s.
Racing(p, q, s, id) ==
  /\ p # q
  /\ pc[p] # "idle" /\ req[p] = [store |-> s, op |-> "Update", id |-> id]
  /\ pc[q] # "idle" /\ req[q] = [store |-> s, op |-> "Delete", id |-> id]

\* C22: while an Update and a Delete of one identifier are both in progress,
\* with the methods taken access by access: a Delete that finds the
\* identifier stored returns true and removes it; an Update that returns
\* while it is stored reports found; an Update that returns after the Delete
\* returned true reports NotFound and inserts nothing; so once both have
\* returned and the Delete returned true, the identifier is not stored.
C22_UpdateNeverReinserts ==
  [][\A p, q \in Procs : \A s \in stores : \A id \in PathIDs :
       Racing(p, q, s, id) =>
         /\ (ReturnsFine(q, "Delete") /\ id \in DOMAIN items[s]) =>
              ret'[q].ok /\ id \notin DOMAIN items'[s]
         /\ (ReturnsFine(p, "Update") /\ id \in DOMAIN items[s]) =>
              ret'[p].ok
         /\ (ReturnsFine(p, "Update") /\ pc[q] = "respond" /\ ret[q].ok) =>
              ~ret'[p].ok /\ id \notin DOMAIN items'[s]
         /\ (pc'[p] = "respond" /\ pc'[q] = "respond" /\ ret'[q].ok) =>
              id \notin DOMAIN items'[s]]_vars

\* The Delete of a created record has returned true and the Update of the
\* same identifier, in progress at the same time, has reported NotFound.
C22_Witness ==
  \E p, q \in Procs : \E s \in stores : \E id \in PathIDs :
    /\ Racing(p, q, s, id)
    /\ Returned(p, "Update") /\ ~ret[p].ok
    /\ Returned(q, "Delete") /\ ret[q].ok
    /\ \E r \in CreatedIn(s) : r.ID = id

\* Number of records store s holds.
Size(s) == Cardinality(DOMAIN items[s])

\* C23: a step changes the number of records of a store by +1 when a Create
\* on it returns, by -1 when a Delete on it returns true, and not at all
\* otherwise (Update, GetByID, GetAll, a Delete that returns false, and every
\* handler step); so, the stores starting empty, the number of records is
\* the number of Creates that returned less the number of identifiers whose
\* Delete returned true.
C23_SizeIsCreatesLessDeletes ==
  [][\A s \in stores :
       /\ Size(s)' - Size(s) =
            (IF \E p \in Procs : Returns(p, "Create") /\ req[p].store = s
               THEN 1
             ELSE IF \E p \in Procs :
                       Returns(p, "Delete") /\ req[p].store = s /\ ret'[p].ok
               THEN 0 - 1
             ELSE 0)
       /\ Size(s)' = NumCreated(s)' - Cardinality(deletedIDs'[s])]_vars

\* Two Creates and a successful Delete have returned on a store, which holds
\* one record.
C23_Witness ==
  \E s \in stores :
    /\ NumCreated(s) = 2
    /\ deletedIDs[s] # {}
    /\ Size(s) = 1

\* C24: a successful Update of id keeps the key set and every record under
\* another key; a successful Delete of id removes the key id alone and keeps
\* every other key and record; a Create keeps every key and record that was
\* stored before it.
C24_OtherRecordsUntouched ==
  [][\A p \in Procs :
       LET s == req[p].store
           id == req[p].id
           m == items[s]
           n == items'[s] IN
       /\ (Returns(p, "Update") /\ ret'[p].ok) =>
            /\ DOMAIN n = DOMAIN m
            /\ \A k \in (DOMAIN m) \ {id} : n[k] = m[k]
       /\ (Returns(p, "Delete") /\ ret'[p].ok) =>
            /\ DOMAIN n = (DOMAIN m) \ {id}
            /\ \A k \in DOMAIN n : n[k] = m[k]
       /\ Returns(p, "Create") =>
            /\ (DOMAIN m) \subseteq DOMAIN n
            /\ \A k \in DOMAIN m : n[k] = m[k]]_vars

\* An Update has succeeded on a store that holds a second record, which is
\* still the record its Create returned.
C24_Witness ==
  \E p \in Procs :
    /\ Returned(p, "Update") /\ ret[p].ok
    /\ \E r \in CreatedIn(req[p].store) :
         /\ r.ID # req[p].id
         /\ r.ID \in DOMAIN items[req[p].store]
         /\ items[req[p].store][r.ID] = r

====
